---- MODULE Spec2Model ----
(***************************************************************************)
(* Model of the lighthouse batch runner (src/index.ts) and of its results  *)
(* parser (src/results-parser.ts).                                         *)
(*                                                                         *)
(* Strings are sequences of UTF-16 code units (naturals), so that the      *)
(* default Array.prototype.sort (which compares the string renderings of   *)
(* the elements), Array.prototype.join and the CSV file contents are       *)
(* modelled by what they do.  Numeric values are non-negative integers;    *)
(* a quotient a / b is the pair <<a, b>>; `undefined` is the empty tuple   *)
(* and a defined number n is <<n>> wherever a value is optional.           *)
(***************************************************************************)
EXTENDS Integers, Sequences, FiniteSets

\* ------------------------------------------------------------------ bounds
\* runs per combination: src/index.ts:11 sets 10, the model runs fewer
runsPerPage == 2
\* number of (target, page, throttling profile) combinations: 2 * 1 * 3 in
\* src/index.ts:7-8,47-89, the model iterates over fewer
NumCombos == 2
\* the observed value of a progress bar is tracked up to this number
MaxBar == 4
\* longest series handed to calculateMedian / calculatePercentile
MaxLen == 3
\* most RunRecords handed to parseResults
MaxRecords == 3
\* most audits in the RunRecord handed to resultToCsv
MaxAudits == 3

\* ------------------------------------------------------------ code units
Comma == 44
Newline == 10

\* metric names "a", "b", "ab"
NameA == <<97>>
NameB == <<98>>
NameAB == <<97, 98>>

\* --------------------------------------------------- JavaScript built-ins
\* Number.prototype.toString for a non-negative integer: its decimal digits
RECURSIVE NumberToString(_)
NumberToString(n) ==
  IF n < 10 THEN <<48 + n>> ELSE Append(NumberToString(n \div 10), 48 + (n % 10))

\* s < t for two strings, by UTF-16 code units
RECURSIVE StringLess(_, _)
StringLess(s, t) ==
  IF t = <<>> THEN FALSE
  ELSE IF s = <<>> THEN TRUE
  ELSE IF Head(s) # Head(t) THEN Head(s) < Head(t)
  ELSE StringLess(Tail(s), Tail(t))

\* Array.prototype.sort (a stable sort) where the comparator orders the
\* elements by a string: keys[k] is the string of seq[k]
StableSort(seq, keys) ==
  LET n == Len(seq)
      rank(k) == Cardinality({m \in 1..n :
                    \/ StringLess(keys[m], keys[k])
                    \/ (~StringLess(keys[k], keys[m]) /\ m < k)})
  IN [p \in 1..n |-> seq[CHOOSE k \in 1..n : rank(k) = p - 1]]

\* values.sort() without a comparator: the elements are converted to strings
\* and ordered by the strings' code units; the array is sorted in place and
\* returned
ArraySortDefault(values) ==
  StableSort(values, [k \in 1..Len(values) |-> NumberToString(values[k])])

\* arr[idx] for a 0-based index: undefined outside the array
At(arr, idx) == IF idx >= 0 /\ idx < Len(arr) THEN <<arr[idx + 1]>> ELSE <<>>

\* Array.prototype.join
RECURSIVE Join(_, _)
Join(cells, sep) ==
  IF cells = <<>> THEN <<>>
  ELSE IF Len(cells) = 1 THEN cells[1]
  ELSE cells[1] \o <<sep>> \o Join(Tail(cells), sep)

RECURSIVE SumSeq(_)
SumSeq(s) == IF s = <<>> THEN 0 ELSE Head(s) + SumSeq(Tail(s))

SeqMin(s) == CHOOSE x \in {s[k] : k \in 1..Len(s)} : \A k \in 1..Len(s) : x <= s[k]
SeqMax(s) == CHOOSE x \in {s[k] : k \in 1..Len(s)} : \A k \in 1..Len(s) : x >= s[k]

\* ------------------------------------------------ src/results-parser.ts
calculateAverage(values) == <<SumSeq(values), Len(values)>>

\* the value calculateMedian returns; the array it was given is left sorted
\* by ArraySortDefault (sorted and values are the same array)
calculateMedian(values) ==
  LET sorted == ArraySortDefault(values)
      middle == Len(sorted) \div 2
  IN IF Len(sorted) % 2 = 0
       THEN <<sorted[(middle - 1) + 1] + sorted[middle + 1], 2>>
       ELSE <<sorted[middle + 1], 1>>

\* Math.ceil((percentile / 100) * length), in exact arithmetic (for the
\* lengths of the model the floating-point product rounds to the same
\* ceiling)
PercentileIndex(percentile, length) == (percentile * length + 99) \div 100

\* the value calculatePercentile returns (undefined is <<>>); the array it
\* was given is left sorted
calculatePercentile(values, percentile) ==
  LET sorted == ArraySortDefault(values)
      index == PercentileIndex(percentile, Len(sorted))
  IN At(sorted, index)

calculateMinMax(values) == [min |-> SeqMin(values), max |-> SeqMax(values)]

calculateSpread(values) == calculateMinMax(values).max - calculateMinMax(values).min

\* a RunRecord (Result.audits) is the sequence of its entries in emission
\* order, each [name, numericValue], the names distinct
RECURSIVE Flatten(_)
Flatten(recs) == IF recs = <<>> THEN <<>> ELSE Head(recs) \o Flatten(Tail(recs))

\* if (auditResult.numericValue): the value is truthy
Truthy(e) == e.numericValue # <<>> /\ e.numericValue[1] # 0

\* the array the Map `audits` holds for a name once every result is scanned
AuditSeries(recs, name) ==
  LET all == Flatten(recs)
      kept == SelectSeq(all, LAMBDA e : e.name = name /\ Truthy(e))
  IN [k \in 1..Len(kept) |-> kept[k].numericValue[1]]

\* the keys of the Map `audits`
AuditKeys(recs) ==
  LET all == Flatten(recs)
  IN {all[k].name : k \in {m \in 1..Len(all) : Truthy(all[m])}}

\* one entry of parsedResults; the statistics are computed in the order of
\* the source, each on the array as the calls before it left it, and
\* `values` is that same array after the last call
Summary(values) ==
  LET afterMedian == ArraySortDefault(values)
      afterP95 == ArraySortDefault(afterMedian)
      afterP99 == ArraySortDefault(afterP95)
  IN [average |-> calculateAverage(values),
      median |-> calculateMedian(values),
      percentile95 |-> calculatePercentile(afterMedian, 95),
      percentile99 |-> calculatePercentile(afterP95, 99),
      minMax |-> calculateMinMax(afterP99),
      spread |-> calculateSpread(afterP99),
      values |-> afterP99]

parseResults(recs) == [audit \in AuditKeys(recs) |-> Summary(AuditSeries(recs, audit))]

\* Object.entries(audits).sort((a, b) => a[0].localeCompare(b[0])), for
\* names of lower-case ASCII letters (localeCompare orders them as their
\* code units do)
SortByName(audits) == StableSort(audits, [k \in 1..Len(audits) |-> audits[k].name])

\* audit.numericValue !== undefined
Defined(e) == e.numericValue # <<>>

\* faulty variant of resultToCsv: the filter tests the value's truthiness
resultToCsvTruthy(audits) ==
  LET numericAudits == SelectSeq(SortByName(audits), Truthy)
      header == Join([k \in 1..Len(numericAudits) |-> numericAudits[k].name], Comma)
      values == Join([k \in 1..Len(numericAudits) |->
                        NumberToString(numericAudits[k].numericValue[1])], Comma)
  IN [header |-> header, values |-> values]

resultToCsv(audits) ==
  LET numericAudits == SelectSeq(SortByName(audits), Defined)
      header == Join([k \in 1..Len(numericAudits) |-> numericAudits[k].name], Comma)
      values == Join([k \in 1..Len(numericAudits) |->
                        NumberToString(numericAudits[k].numericValue[1])], Comma)
  IN [header |-> header, values |-> values]

\* ------------------------------------------------------------- the state
VARIABLES
  pc,          \* the batch: where the top-level code of index.ts stands
  combo,       \* the batch: number of the current combination, from 1
  i,           \* the batch: index of the run loop
  results,     \* the batch: the accepted Results of the current combination
  runBar,      \* the batch: value of the combination's progress bar
  bar,         \* the batch: value of the overall progress bar
  jsonFiles,   \* the batch: <run-index>.json of every combination
  csvFiles,    \* the batch: report.csv of every combination
  csvIndex,    \* the batch: index of the loop that writes report.csv
  thrown,      \* the batch: an awaited lighthouse call has rejected
  chromeKilled,\* the batch: chrome.kill() was called
  input,       \* statistics: the series as it was handed over
  values,      \* statistics: the array, as the calls left it
  stat,        \* statistics: what the last call returned
  op,          \* statistics: the last call
  records,     \* parser: the Results handed to parseResults / resultToCsv
  parsed,      \* parser: what parseResults returned
  row,         \* parser: what resultToCsv returned
  done         \* parser: the call has returned

batchVars == <<pc, combo, i, results, runBar, bar, jsonFiles, csvFiles,
               csvIndex, thrown, chromeKilled>>
statVars == <<input, values, stat, op>>
parserVars == <<records, parsed, row, done>>
vars == <<batchVars, statVars, parserVars>>

Combos == 1..NumCombos

\* the Results the audit operation returns in the model: in the first, the
\* audits are emitted in the order b, a and a value is 0; in the second, b
\* has no numeric value
LhrB0A7 ==
  <<[name |-> NameB, numericValue |-> <<0>>], [name |-> NameA, numericValue |-> <<7>>]>>
LhrA10 ==
  <<[name |-> NameA, numericValue |-> <<10>>], [name |-> NameB, numericValue |-> <<>>]>>
LhrChoices == {LhrB0A7, LhrA10}

\* a report.csv left by an earlier execution of the tool: "a" "\n" "1" "\n"
StaleCsv == <<97, Newline, 49, Newline>>

\* a file is <<>> when it does not exist and <<contents>> when it does
BatchInit ==
  /\ pc = "nextCombo"
  /\ combo = 1
  /\ i = 0
  /\ results = <<>>
  /\ runBar = 0
  /\ bar = 0
  /\ jsonFiles = [c \in Combos |-> [k \in 0..(runsPerPage - 1) |-> <<>>]]
  /\ csvFiles \in [Combos -> {<<>>, <<StaleCsv>>}]
  /\ csvIndex = 0
  /\ thrown = FALSE
  /\ chromeKilled = FALSE

BatchIdle ==
  /\ pc = "idle"
  /\ combo = 1
  /\ i = 0
  /\ results = <<>>
  /\ runBar = 0
  /\ bar = 0
  /\ jsonFiles = <<>>
  /\ csvFiles = <<>>
  /\ csvIndex = 0
  /\ thrown = FALSE
  /\ chromeKilled = FALSE

StatIdle == input = <<>> /\ values = <<>> /\ stat = <<>> /\ op = "none"
ParserIdle == records = <<>> /\ parsed = <<>> /\ row = <<>> /\ done = "none"

\* progress bar increment; the bar itself has no upper limit, the model
\* stops counting at MaxBar so that attempts can fail without end
Increment(value) == IF value < MaxBar THEN value + 1 ELSE value

\* a step of the batch leaves the variables of the other parts alone
RestIdle == UNCHANGED <<statVars, parserVars>>

\* ------------------------------------------------------- src/index.ts
\* lines 122-130: the next combination of the nested for loops
StartCombination ==
  /\ RestIdle
  /\ pc = "nextCombo"
  /\ combo <= NumCombos
  /\ results' = <<>>
  /\ runBar' = 0
  /\ i' = 0
  /\ pc' = "loopHead"
  /\ UNCHANGED <<combo, bar, jsonFiles, csvFiles, csvIndex, thrown, chromeKilled>>

\* lines 131-132: i < runsPerPage, runBar.increment(), lighthouse is called
RunBarIncrement ==
  /\ RestIdle
  /\ pc = "loopHead"
  /\ i < runsPerPage
  /\ runBar' = Increment(runBar)
  /\ pc' = "lighthouse"
  /\ UNCHANGED <<combo, i, results, bar, jsonFiles, csvFiles, csvIndex, thrown,
                 chromeKilled>>

\* faulty variant of AuditFails: the retry forgets i--, a failed attempt uses up a run
AuditFailsNoDecrement ==
  /\ RestIdle
  /\ pc = "lighthouse"
  /\ i' = i + 1
  /\ pc' = "loopHead"
  /\ UNCHANGED <<combo, results, runBar, bar, jsonFiles, csvFiles, csvIndex, thrown,
                 chromeKilled>>

\* faulty variant of AuditFails: a failed attempt is not retried, the batch stops
AuditFailsStops ==
  /\ RestIdle
  /\ pc = "lighthouse"
  /\ pc' = "aborted"
  /\ UNCHANGED <<combo, i, results, runBar, bar, jsonFiles, csvFiles, csvIndex,
                 thrown, chromeKilled>>

\* lines 144-148: no runnerResult, or lhr.runtimeError: i--, continue, i++
AuditFails ==
  /\ RestIdle
  /\ pc = "lighthouse"
  /\ i' = (i - 1) + 1
  /\ pc' = "loopHead"
  /\ UNCHANGED <<combo, results, runBar, bar, jsonFiles, csvFiles, csvIndex, thrown,
                 chromeKilled>>

\* lines 154-158: the result is pushed, <i>.json is written, i++
AuditSucceeds(lhr) ==
  /\ RestIdle
  /\ pc = "lighthouse"
  /\ results' = Append(results, lhr)
  /\ jsonFiles' = [jsonFiles EXCEPT ![combo][i] = <<lhr>>]
  /\ i' = i + 1
  /\ pc' = "loopHead"
  /\ UNCHANGED <<combo, runBar, bar, csvFiles, csvIndex, thrown, chromeKilled>>

\* faulty variant of AuditThrows: the rejection is caught and the attempt retried
AuditThrowsRetried ==
  /\ RestIdle
  /\ pc = "lighthouse"
  /\ thrown' = TRUE
  /\ pc' = "loopHead"
  /\ UNCHANGED <<combo, i, results, runBar, bar, jsonFiles, csvFiles, csvIndex,
                 chromeKilled>>

\* line 134: the awaited call rejects; nothing catches it, the module's
\* evaluation ends
AuditThrows ==
  /\ RestIdle
  /\ pc = "lighthouse"
  /\ thrown' = TRUE
  /\ pc' = "aborted"
  /\ UNCHANGED <<combo, i, results, runBar, bar, jsonFiles, csvFiles, csvIndex,
                 chromeKilled>>

\* lines 131, 160-163: the run loop is left, report.csv is unlinked (an
\* unlink of a file that does not exist fails and the failure is swallowed)
UnlinkCsv ==
  /\ RestIdle
  /\ pc = "loopHead"
  /\ ~(i < runsPerPage)
  /\ csvFiles' = [csvFiles EXCEPT ![combo] = <<>>]
  /\ csvIndex' = 0
  /\ pc' = "csvLoop"
  /\ UNCHANGED <<combo, i, results, runBar, bar, jsonFiles, thrown, chromeKilled>>

\* fs.appendFile: the file is created when it does not exist
AppendFile(file, contents) ==
  IF file = <<>> THEN <<contents>> ELSE <<file[1] \o contents>>

\* faulty variant of AppendCsv: every run writes its header line
AppendCsvHeaderEveryRun ==
  /\ RestIdle
  /\ pc = "csvLoop"
  /\ csvIndex < Len(results)
  /\ LET csv == resultToCsv(results[csvIndex + 1])
         contents == csv.header \o <<Newline>> \o csv.values \o <<Newline>>
     IN csvFiles' = [csvFiles EXCEPT ![combo] = AppendFile(csvFiles[combo], contents)]
  /\ csvIndex' = csvIndex + 1
  /\ UNCHANGED <<pc, combo, i, results, runBar, bar, jsonFiles, thrown, chromeKilled>>

\* lines 163-167: one line of report.csv, after the header for the first
AppendCsv ==
  /\ RestIdle
  /\ pc = "csvLoop"
  /\ csvIndex < Len(results)
  /\ LET csv == resultToCsv(results[csvIndex + 1])
         contents == IF csvIndex = 0
                       THEN csv.header \o <<Newline>> \o csv.values \o <<Newline>>
                       ELSE csv.values \o <<Newline>>
     IN csvFiles' = [csvFiles EXCEPT ![combo] = AppendFile(csvFiles[combo], contents)]
  /\ csvIndex' = csvIndex + 1
  /\ UNCHANGED <<pc, combo, i, results, runBar, bar, jsonFiles, thrown, chromeKilled>>

\* lines 163, 173-175: the csv loop is left, runBar.stop(), bar.increment()
FinishCombination ==
  /\ RestIdle
  /\ pc = "csvLoop"
  /\ ~(csvIndex < Len(results))
  /\ bar' = Increment(bar)
  /\ combo' = combo + 1
  /\ pc' = "nextCombo"
  /\ UNCHANGED <<i, results, runBar, jsonFiles, csvFiles, csvIndex, thrown,
                 chromeKilled>>

\* lines 179-180: progressBar.stop(), chrome.kill()
KillChrome ==
  /\ RestIdle
  /\ pc = "nextCombo"
  /\ combo > NumCombos
  /\ chromeKilled' = TRUE
  /\ pc' = "done"
  /\ UNCHANGED <<combo, i, results, runBar, bar, jsonFiles, csvFiles, csvIndex,
                 thrown>>

Init == BatchInit /\ StatIdle /\ ParserIdle

Next ==
  \/ StartCombination
  \/ RunBarIncrement
  \/ AuditFails
  \/ \E lhr \in LhrChoices : AuditSucceeds(lhr)
  \/ AuditThrows
  \/ UnlinkCsv
  \/ AppendCsv
  \/ FinishCombination
  \/ KillChrome

Spec == Init /\ [][Next]_vars

\* the behaviours in which an audit that is invoked again and again
\* eventually succeeds
LiveSpec ==
  /\ Init
  /\ [][Next]_vars
  /\ WF_vars(Next)
  /\ SF_vars(\E lhr \in LhrChoices : AuditSucceeds(lhr))

\* ------------------------------------------------- properties of the batch
\* String.prototype.split
RECURSIVE SplitOn(_, _)
SplitOn(s, sep) ==
  IF \A k \in 1..Len(s) : s[k] # sep THEN <<s>>
  ELSE LET p == CHOOSE k \in 1..Len(s) : s[k] = sep /\ \A m \in 1..(k - 1) : s[m] # sep
       IN <<SubSeq(s, 1, p - 1)>> \o SplitOn(SubSeq(s, p + 1, Len(s)), sep)

\* the lines of a text in which every line ends with a newline
Lines(contents) ==
  LET pieces == SplitOn(contents, Newline)
  IN SubSeq(pieces, 1, Len(pieces) - 1)

EndsWithNewline(contents) == contents # <<>> /\ contents[Len(contents)] = Newline

\* the run-index artifacts a combination has on disk
JsonCount(c) == Cardinality({k \in DOMAIN jsonFiles[c] : jsonFiles[c][k] # <<>>})

\* C1: in the run loop (at the loop head and while an audit is awaited) the
\* loop index, the number of accepted Results and the number of <k>.json
\* artifacts of the combination are equal, the k-th accepted Result (from 0)
\* is the contents of <k>.json, and the loop is left only with exactly
\* runsPerPage accepted Results.
C1_IndexResultsArtifactsAgree ==
  /\ pc \in {"loopHead", "lighthouse"} =>
       /\ i = Len(results)
       /\ i = JsonCount(combo)
       /\ i <= runsPerPage
       /\ \A k \in 0..(i - 1) : jsonFiles[combo][k] = <<results[k + 1]>>
  /\ pc = "csvLoop" => Len(results) = runsPerPage /\ JsonCount(combo) = runsPerPage

\* C1 witness: two failed attempts and a successful one (three attempts)
\* have left one accepted Result, one artifact and the index at 1.
C1_Witness ==
  /\ pc = "loopHead"
  /\ runBar = 3
  /\ Len(results) = 1
  /\ i = 1
  /\ JsonCount(combo) = 1

\* C2: at every loop head the number of runBar increments equals the number
\* of accepted Results and never exceeds runsPerPage.
C2_RunBarCountsAccepted ==
  pc = "loopHead" => runBar = Len(results) /\ runBar <= runsPerPage

\* C3: when a repeatedly invoked audit eventually succeeds and no audit
\* throws, the batch ends: every combination has its runsPerPage artifacts,
\* every combination was completed and chrome was killed.
C3_BatchEventuallyDone ==
  <>(\/ thrown
     \/ /\ pc = "done"
        /\ chromeKilled
        /\ bar = NumCombos
        /\ \A c \in Combos : JsonCount(c) = runsPerPage)

\* C3 witness: the batch is done although the last combination needed more
\* attempts than runsPerPage.
C3_Witness ==
  pc = "done" /\ chromeKilled /\ ~thrown /\ runBar > runsPerPage

\* the lines report.csv holds once the first n of the Results rs are written
CsvLinesAfter(rs, n) ==
  <<resultToCsv(rs[1]).header>> \o [k \in 1..n |-> resultToCsv(rs[k]).values]

\* C8: while report.csv is written it does not exist before the first run is
\* written, then holds the first run's header line followed by the values
\* lines of the runs written so far, in acceptance order; when the combination
\* is completed it holds that header line and runsPerPage values lines.
C8_CsvHeaderThenValues ==
  /\ (pc = "csvLoop" /\ csvIndex = 0) => csvFiles[combo] = <<>>
  /\ (pc = "csvLoop" /\ csvIndex > 0) =>
       /\ csvFiles[combo] # <<>>
       /\ EndsWithNewline(csvFiles[combo][1])
       /\ Lines(csvFiles[combo][1]) = CsvLinesAfter(results, csvIndex)
  /\ (pc \in {"nextCombo", "done"} /\ combo > 1) =>
       /\ csvFiles[combo - 1] # <<>>
       /\ EndsWithNewline(csvFiles[combo - 1][1])
       /\ Len(Lines(csvFiles[combo - 1][1])) = runsPerPage + 1
       /\ Lines(csvFiles[combo - 1][1]) = CsvLinesAfter(results, runsPerPage)

\* C8 witness: a completed combination whose first run has two numeric
\* metrics and whose second run has one: the second values line has fewer
\* columns than the header.
C8_Witness ==
  /\ pc = "nextCombo"
  /\ combo = 2
  /\ results[1] = LhrB0A7
  /\ results[2] = LhrA10
  /\ Len(SplitOn(Lines(csvFiles[1][1])[1], Comma)) = 2
  /\ Len(SplitOn(Lines(csvFiles[1][1])[3], Comma)) = 1

\* a step that invokes the audit operation or handles what it returned
AuditStep ==
  \/ RunBarIncrement
  \/ AuditFails
  \/ \E lhr \in LhrChoices : AuditSucceeds(lhr)
  \/ AuditThrows

\* C9: once an audit has thrown, no step invokes or handles an audit and no
\* artifact or report.csv changes.
C9_ThrowAbortsBatch ==
  [][thrown => (~AuditStep /\ UNCHANGED <<jsonFiles, csvFiles>>)]_vars

\* C9 witness: an audit of the second combination has thrown after the first
\* combination was completed and written.
C9_Witness ==
  /\ thrown
  /\ combo = 2
  /\ JsonCount(1) = runsPerPage
  /\ csvFiles[1] # <<>>

\* --------------------------------- calls of the statistics on one series
SeriesValues == {0, 2, 10, 33}
SeriesInputs == UNION {[1..n -> SeriesValues] : n \in 1..MaxLen}

StatInit ==
  /\ BatchIdle
  /\ ParserIdle
  /\ input \in SeriesInputs
  /\ values = input
  /\ stat = <<>>
  /\ op = "none"

\* calculateMedian(values): values.sort() sorts the caller's array
CallMedian ==
  /\ stat' = calculateMedian(values)
  /\ values' = ArraySortDefault(values)
  /\ op' = "median"
  /\ UNCHANGED <<input, batchVars, parserVars>>

\* calculatePercentile(values, percentile), as parseResults calls it
CallPercentile(percentile) ==
  /\ stat' = calculatePercentile(values, percentile)
  /\ values' = ArraySortDefault(values)
  /\ op' = IF percentile = 95 THEN "percentile95" ELSE "percentile99"
  /\ UNCHANGED <<input, batchVars, parserVars>>

StatNext ==
  \/ CallMedian
  \/ \E percentile \in {95, 99} : CallPercentile(percentile)

StatSpec == StatInit /\ [][StatNext]_vars

\* the elements of a series in ascending numeric order
NumericSort(series) ==
  LET n == Len(series)
      rank(k) == Cardinality({m \in 1..n :
                    series[m] < series[k] \/ (series[m] = series[k] /\ m < k)})
  IN [p \in 1..n |-> series[CHOOSE k \in 1..n : rank(k) = p - 1]]

\* the textbook median of a non-empty series, as a quotient
TextbookMedian(series) ==
  LET sorted == NumericSort(series)
      n == Len(sorted)
  IN IF n % 2 = 1 THEN <<sorted[(n + 1) \div 2], 1>>
     ELSE <<sorted[n \div 2] + sorted[n \div 2 + 1], 2>>

\* two quotients are the same number
SameNumber(q, r) == q[1] * r[2] = r[1] * q[2]

\* C4: the median the aggregator computes for a non-empty series is the
\* textbook median of the series ordered by numeric value.
C4_MedianIsTextbookMedian ==
  op = "median" => SameNumber(stat, TextbookMedian(input))

\* C5: for a non-empty series and percentile 95 or 99, the index is within
\* 0..length-1, so the percentile is defined and is an element of the series.
C5_PercentileIsAnElement ==
  op \in {"percentile95", "percentile99"} =>
    /\ stat # <<>>
    /\ \E k \in 1..Len(input) : stat = <<input[k]>>

\* ------------------------------------------------- calls of parseResults
\* RunRecords in which the audit a is absent, has no numeric value or has
\* the value 0, 1, 3 or 5, and the audit b is absent or has the value 2
ParseRecords ==
  {a \o b : a \in {<<>>} \cup {<<[name |-> NameA, numericValue |-> v]>> :
                                  v \in {<<>>, <<0>>, <<1>>, <<3>>, <<5>>}},
            b \in {<<>>, <<[name |-> NameB, numericValue |-> <<2>>]>>}}
ParseInputs == UNION {[1..n -> ParseRecords] : n \in 1..MaxRecords}

ParseInit ==
  /\ BatchIdle
  /\ StatIdle
  /\ records \in ParseInputs
  /\ parsed = <<>>
  /\ row = <<>>
  /\ done = "none"

CallParseResults ==
  /\ done = "none"
  /\ parsed' = parseResults(records)
  /\ done' = "parseResults"
  /\ UNCHANGED <<records, row, batchVars, statVars>>

ParseNext == CallParseResults

ParseSpec == ParseInit /\ [][ParseNext]_vars

\* the numeric values (0 included) the records hold for a metric, in run order
PresentValues(recs, name) ==
  LET all == Flatten(recs)
      kept == SelectSeq(all, LAMBDA e : e.name = name /\ e.numericValue # <<>>)
  IN [k \in 1..Len(kept) |-> kept[k].numericValue[1]]

\* C6: the series of a metric has one entry for each record in which the
\* metric has a numeric value, 0 included, and none for the other records;
\* its average is the sum of those values over their number.
C6_SeriesHoldsEveryPresentValue ==
  done = "parseResults" =>
    \A name \in {NameA, NameB} :
      LET present == PresentValues(records, name)
      IN IF present = <<>> THEN name \notin DOMAIN parsed
         ELSE /\ name \in DOMAIN parsed
              /\ Len(parsed[name].values) = Len(present)
              /\ SameNumber(parsed[name].average, <<SumSeq(present), Len(present)>>)

\* C10: the values reported for a metric are the metric's series as it was
\* collected, in run order.
C10_ValuesInRunOrder ==
  done = "parseResults" =>
    \A name \in DOMAIN parsed : parsed[name].values = AuditSeries(records, name)

\* --------------------------------------------------- calls of resultToCsv
CsvEntries ==
  {[name |-> n, numericValue |-> v] :
     n \in {NameA, NameB, NameAB}, v \in {<<>>, <<0>>, <<7>>, <<10>>}}

\* the RunRecords of at most MaxAudits audits, in every emission order
CsvRecords ==
  UNION {{rec \in [1..n -> CsvEntries] :
            \A k, m \in 1..n : rec[k].name = rec[m].name => k = m} :
         n \in 1..MaxAudits}

CsvInit ==
  /\ BatchIdle
  /\ StatIdle
  /\ records \in {<<rec>> : rec \in CsvRecords}
  /\ parsed = <<>>
  /\ row = <<>>
  /\ done = "none"

CallResultToCsv ==
  /\ done = "none"
  /\ row' = resultToCsv(records[1])
  /\ done' = "resultToCsv"
  /\ UNCHANGED <<records, parsed, batchVars, statVars>>

CsvNext == CallResultToCsv

CsvSpec == CsvInit /\ [][CsvNext]_vars

\* C7: the header of a RunRecord's row names exactly the metrics with a
\* defined numeric value (0 included), in ascending order of the names, and
\* the values line has as many columns, the c-th the value of the c-th name.
C7_RowMatchesRecord ==
  done = "resultToCsv" =>
    LET rec == records[1]
        defined == {k \in 1..Len(rec) : rec[k].numericValue # <<>>}
        cols == SplitOn(row.header, Comma)
        vals == SplitOn(row.values, Comma)
    IN IF defined = {} THEN row.header = <<>> /\ row.values = <<>>
       ELSE /\ Len(cols) = Cardinality(defined)
            /\ Len(vals) = Len(cols)
            /\ \A c \in 1..(Len(cols) - 1) : StringLess(cols[c], cols[c + 1])
            /\ \A c \in 1..Len(cols) :
                 \E k \in defined :
                   /\ rec[k].name = cols[c]
                   /\ vals[c] = NumberToString(rec[k].numericValue[1])

\* C7 witness: the record lists b (value 0) before a (value 7); the row is
\* "a,b" and "7,0".
C7_Witness ==
  /\ done = "resultToCsv"
  /\ records = <<LhrB0A7>>
  /\ row.header = <<97, Comma, 98>>
  /\ row.values = <<55, Comma, 48>>

====
